---- MODULE Spec2Model ----
(***************************************************************************)
(* Model of src/utilities/verification.ts: verifyKey, valueToUint8Array    *)
(* and concatUint8Arrays, together with the two WebCrypto primitives       *)
(* (subtle.importKey, subtle.verify) that verifyKey awaits.                *)
(*                                                                         *)
(* Strings are sequences of UTF-16 code units (all below 0xD800 here),     *)
(* byte arrays are sequences over 0..255.  Memory that can be shared       *)
(* between typed arrays is a region of the heap; a typed array is named by *)
(* the region it views.                                                    *)
(***************************************************************************)
EXTENDS Integers, Sequences, FiniteSets, TLC

(***************************************************************************)
(* Bounds of the model.                                                    *)
(***************************************************************************)
MaxCalls == 2      \* concurrent verifyKey invocations
MaxTextLen == 1    \* code units in a timestamp or a string body
MaxHexLen == 2     \* code units in a signature or public-key string
MaxProbeLen == 3   \* code units in a string handed to the hex decoder alone
MaxArrLen == 2     \* bytes in each operand handed to the concatenation alone

(***************************************************************************)
(* Scale of the provider stand-in: raw key and signature sizes (32 and 64  *)
(* bytes for Ed25519) and the range of its digest.                         *)
(***************************************************************************)
KeyBytes == 1
SigBytes == 1
DigestRange == 5

(***************************************************************************)
(* Generic helpers.                                                        *)
(***************************************************************************)
SeqsUpTo(S, n) == UNION {[1..k -> S] : k \in 0..n}

Zeros(n) == [i \in 1..n |-> 0]

(***************************************************************************)
(* TextEncoder.encode: UTF-8 of a sequence of code units below 0xD800.     *)
(***************************************************************************)
EncodeUnit(c) ==
  IF c < 128 THEN <<c>>
  ELSE IF c < 2048 THEN <<192 + (c \div 64), 128 + (c % 64)>>
  ELSE <<224 + (c \div 4096), 128 + ((c \div 64) % 64), 128 + (c % 64)>>

RECURSIVE TextEncoderEncode(_)
TextEncoderEncode(s) ==
  IF s = <<>> THEN <<>> ELSE EncodeUnit(Head(s)) \o TextEncoderEncode(Tail(s))

(***************************************************************************)
(* value.match(/.{1,2}/g): "." matches every code unit except the line     *)
(* terminators, the quantifier is greedy, and the result is null (here the *)
(* empty sequence of chunks) when nothing matches.                         *)
(***************************************************************************)
LineTerminators == {10, 13, 8232, 8233}

RECURSIVE MatchChunks(_)
MatchChunks(s) ==
  IF s = <<>> THEN <<>>
  ELSE IF Head(s) \in LineTerminators THEN MatchChunks(Tail(s))
  ELSE IF Len(s) >= 2 /\ s[2] \notin LineTerminators
       THEN <<SubSeq(s, 1, 2)>> \o MatchChunks(SubSeq(s, 3, Len(s)))
       ELSE <<SubSeq(s, 1, 1)>> \o MatchChunks(Tail(s))

(***************************************************************************)
(* Number.parseInt(string, 16): leading white space is skipped, one sign   *)
(* is read, a 0x/0X prefix is skipped, then the longest prefix of base-16  *)
(* digits is read; no digit at all gives NaN.                              *)
(***************************************************************************)
WhiteSpace == {9, 10, 11, 12, 13, 32, 160, 8232, 8233, 65279}

NaN == [nan |-> TRUE, n |-> 0]

Num(n) == [nan |-> FALSE, n |-> n]

DigitValue(c) ==
  IF c \in 48..57 THEN c - 48
  ELSE IF c \in 97..122 THEN c - 87
  ELSE IF c \in 65..90 THEN c - 55
  ELSE 36

RECURSIVE TrimStart(_)
TrimStart(s) ==
  IF s # <<>> /\ Head(s) \in WhiteSpace THEN TrimStart(Tail(s)) ELSE s

RECURSIVE DigitPrefix(_, _)
DigitPrefix(s, radix) ==
  IF s # <<>> /\ DigitValue(Head(s)) < radix
  THEN <<Head(s)>> \o DigitPrefix(Tail(s), radix)
  ELSE <<>>

RECURSIVE DigitsValue(_, _, _)
DigitsValue(s, radix, acc) ==
  IF s = <<>> THEN acc
  ELSE DigitsValue(Tail(s), radix, acc * radix + DigitValue(Head(s)))

parseInt(str, radix) ==
  LET s1 == TrimStart(str)
      neg == s1 # <<>> /\ Head(s1) = 45
      s2 == IF s1 # <<>> /\ Head(s1) \in {43, 45} THEN Tail(s1) ELSE s1
      s3 == IF radix = 16 /\ Len(s2) >= 2 /\ s2[1] = 48 /\ s2[2] \in {88, 120}
            THEN SubSeq(s2, 3, Len(s2)) ELSE s2
      z == DigitPrefix(s3, radix)
  IN IF z = <<>> THEN NaN
     ELSE Num((IF neg THEN -1 ELSE 1) * DigitsValue(z, radix, 0))

(***************************************************************************)
(* new Uint8Array(numbers): each element goes through ToUint8, which maps  *)
(* NaN to 0 and every other integer to its value modulo 256.               *)
(***************************************************************************)
ToUint8(x) == IF x.nan THEN 0 ELSE x.n % 256

(***************************************************************************)
(* Values handed to valueToUint8Array.  kind is the runtime type; str is   *)
(* the content of a string, bytes the content of a byte sequence.          *)
(***************************************************************************)
StringValue(s) == [kind |-> "string", str |-> s, bytes |-> <<>>]

BytesValue(k, b) == [kind |-> k, str |-> <<>>, bytes |-> b]

NullValue == [kind |-> "null", str |-> <<>>, bytes |-> <<>>]

OtherValue == [kind |-> "other", str |-> <<>>, bytes |-> <<>>]

(***************************************************************************)
(* valueToUint8Array(value, format).  The result says whether the call     *)
(* threw, the bytes of the returned array, and whether the returned array  *)
(* views the memory of the argument (the Uint8Array itself, or a view over *)
(* the ArrayBuffer) instead of fresh memory.                               *)
(***************************************************************************)
Threw(msg) == [threw |-> TRUE, error |-> msg, bytes |-> <<>>, shares |-> FALSE]

Fresh(b) == [threw |-> FALSE, error |-> "", bytes |-> b, shares |-> FALSE]

Shared(b) == [threw |-> FALSE, error |-> "", bytes |-> b, shares |-> TRUE]

\* Variant: an absent value is an unrecognized value.
valueToUint8Array_nullThrows(value, format) ==
  IF value.kind = "string" THEN
    IF format = "hex" THEN
      LET matches == MatchChunks(value.str) IN
      IF matches = <<>> THEN Threw("Value is not a valid hex string")
      ELSE Fresh([i \in 1..Len(matches) |-> ToUint8(parseInt(matches[i], 16))])
    ELSE Fresh(TextEncoderEncode(value.str))
  ELSE IF value.kind = "Buffer" THEN Fresh(value.bytes)
  ELSE IF value.kind = "ArrayBuffer" THEN Shared(value.bytes)
  ELSE IF value.kind = "Uint8Array" THEN Shared(value.bytes)
  ELSE Threw("Unrecognized value type")

\* Variant: a string is parsed as hex whatever the format.
valueToUint8Array_hexAlways(value, format) ==
  IF value.kind = "null" THEN Fresh(<<>>)
  ELSE IF value.kind = "string" THEN
    LET matches == MatchChunks(value.str) IN
    IF matches = <<>> THEN Threw("Value is not a valid hex string")
    ELSE Fresh([i \in 1..Len(matches) |-> ToUint8(parseInt(matches[i], 16))])
  ELSE IF value.kind = "Buffer" THEN Fresh(value.bytes)
  ELSE IF value.kind = "ArrayBuffer" THEN Shared(value.bytes)
  ELSE IF value.kind = "Uint8Array" THEN Shared(value.bytes)
  ELSE Threw("Unrecognized value type")

valueToUint8Array(value, format) ==
  IF value.kind = "null" THEN Fresh(<<>>)
  ELSE IF value.kind = "string" THEN
    IF format = "hex" THEN
      LET matches == MatchChunks(value.str) IN
      IF matches = <<>> THEN Threw("Value is not a valid hex string")
      ELSE Fresh([i \in 1..Len(matches) |-> ToUint8(parseInt(matches[i], 16))])
    ELSE Fresh(TextEncoderEncode(value.str))
  ELSE IF value.kind = "Buffer" THEN Fresh(value.bytes)
  ELSE IF value.kind = "ArrayBuffer" THEN Shared(value.bytes)
  ELSE IF value.kind = "Uint8Array" THEN Shared(value.bytes)
  ELSE Threw("Unrecognized value type")

(***************************************************************************)
(* concatUint8Arrays(arr1, arr2) on a heap h (region -> bytes): merged is  *)
(* the region the constructor allocates; TypedArray.prototype.set copies   *)
(* the source into the target from the offset on.                          *)
(***************************************************************************)
\* Variant: the offset is ignored.
TypedArraySet_noOffset(target, source, offset) ==
  [i \in 1..Len(target) |->
     IF i <= Len(source) THEN source[i] ELSE target[i]]

TypedArraySet(target, source, offset) ==
  [i \in 1..Len(target) |->
     IF i > offset /\ i <= offset + Len(source) THEN source[i - offset]
     ELSE target[i]]

\* Variant: the operands are merged in the opposite order.
concatUint8Arrays_swapped(h, arr1, arr2, merged) ==
  LET h0 == [h EXCEPT ![merged] = Zeros(Len(h[arr1]) + Len(h[arr2]))]
      h1 == [h0 EXCEPT ![merged] = TypedArraySet(h0[merged], h0[arr2], 0)]
      h2 == [h1 EXCEPT ![merged] =
               TypedArraySet(h1[merged], h1[arr1], Len(h1[arr2]))]
  IN [heap |-> h2, ref |-> merged]

\* Variant: an empty first operand makes the second one the result.
concatUint8Arrays_reuse(h, arr1, arr2, merged) ==
  IF h[arr1] = <<>> THEN [heap |-> h, ref |-> arr2]
  ELSE
  LET h0 == [h EXCEPT ![merged] = Zeros(Len(h[arr1]) + Len(h[arr2]))]
      h1 == [h0 EXCEPT ![merged] = TypedArraySet(h0[merged], h0[arr1], 0)]
      h2 == [h1 EXCEPT ![merged] =
               TypedArraySet(h1[merged], h1[arr2], Len(h1[arr1]))]
  IN [heap |-> h2, ref |-> merged]

concatUint8Arrays(h, arr1, arr2, merged) ==
  LET h0 == [h EXCEPT ![merged] = Zeros(Len(h[arr1]) + Len(h[arr2]))]
      h1 == [h0 EXCEPT ![merged] = TypedArraySet(h0[merged], h0[arr1], 0)]
      h2 == [h1 EXCEPT ![merged] =
               TypedArraySet(h1[merged], h1[arr2], Len(h1[arr1]))]
  IN [heap |-> h2, ref |-> merged]

(***************************************************************************)
(* The cryptographic provider (webcrypto.subtle).  A key handle is opaque  *)
(* to the caller; raw is the key material the provider keeps for it.       *)
(* Stand-in for Ed25519: a signature over data under a key is the one byte *)
(* Digest(raw, data), a position-weighted checksum of the data.            *)
(***************************************************************************)
NoKey ==
  [id |-> 0, type |-> "none", algorithm |-> "none", extractable |-> FALSE,
   usages |-> {}, raw |-> <<>>]

PublicKeyHandle(id, raw) ==
  [id |-> id, type |-> "public", algorithm |-> "Ed25519",
   extractable |-> FALSE, usages |-> {"verify"}, raw |-> raw]

PrivateKeyHandle(id, raw) ==
  [id |-> id, type |-> "private", algorithm |-> "Ed25519",
   extractable |-> FALSE, usages |-> {"sign"}, raw |-> raw]

NormalizeAlgorithm(name) ==
  IF name \in {"ed25519", "Ed25519", "ED25519"} THEN "Ed25519" ELSE name

RECURSIVE WeightedSum(_, _)
WeightedSum(data, i) ==
  IF i > Len(data) THEN 0 ELSE i * data[i] + WeightedSum(data, i + 1)

Digest(raw, data) == (raw[1] + WeightedSum(data, 1)) % DigestRange

\* subtle.importKey("raw", keyData, algorithm, extractable, usages); id is
\* the identity of the handle the provider creates.
importKey(call, id) ==
  IF call.format # "raw" \/ NormalizeAlgorithm(call.algorithm) # "Ed25519"
     \/ ~(call.usages \subseteq {"verify"}) \/ Len(call.keyData) # KeyBytes
  THEN [rejected |-> TRUE, key |-> NoKey]
  ELSE [rejected |-> FALSE,
        key |-> [id |-> id, type |-> "public", algorithm |-> "Ed25519",
                 extractable |-> call.extractable, usages |-> call.usages,
                 raw |-> call.keyData]]

\* subtle.verify(algorithm, key, signature, data)
subtleVerify(call) ==
  IF NormalizeAlgorithm(call.algorithm) # call.key.algorithm
     \/ "verify" \notin call.key.usages
  THEN [rejected |-> TRUE, value |-> FALSE]
  ELSE [rejected |-> FALSE,
        value |-> Len(call.signature) = SigBytes
                  /\ call.signature[1] = Digest(call.key.raw, call.data)]

(***************************************************************************)
(* Inputs of verifyKey.                                                    *)
(***************************************************************************)
StringKey(s) == [kind |-> "string", str |-> s, key |-> NoKey]

CryptoKey(k) == [kind |-> "CryptoKey", str |-> <<>>, key |-> k]

NoArgs ==
  [rawBody |-> NullValue, signature |-> <<>>, timestamp |-> <<>>,
   clientPublicKey |-> StringKey(<<>>)]

ByteKinds == {"Uint8Array", "ArrayBuffer", "Buffer"}

TextUnits == {49, 233}           \* "1" and e-acute (two bytes in UTF-8)

BodyBytes == {49, 195, 169}

HexUnits == {49, 122}            \* "1" and "z"

PrebuiltKeys ==
  {PublicKeyHandle(-1, <<0>>), PublicKeyHandle(-2, <<1>>),
   PrivateKeyHandle(-3, <<1>>)}

Timestamps == SeqsUpTo(TextUnits, MaxTextLen)

Bodies ==
  {NullValue, OtherValue}
  \cup {StringValue(s) : s \in SeqsUpTo(TextUnits, MaxTextLen)}
  \cup {BytesValue(k, b) : k \in ByteKinds,
                           b \in SeqsUpTo(BodyBytes, MaxTextLen + 1)}

Signatures == SeqsUpTo(HexUnits, MaxHexLen)

PublicKeys ==
  {StringKey(s) : s \in SeqsUpTo(HexUnits, MaxHexLen + 1)}
  \cup {CryptoKey(k) : k \in PrebuiltKeys}

ArgsOne ==
  [rawBody : Bodies, signature : Signatures, timestamp : Timestamps,
   clientPublicKey : PublicKeys]

\* The inputs of the concurrent calls: one timestamp; the same body as a
\* string and as each byte-sequence type, an absent body and an unsupported
\* one; the signatures "1" and "00"; the key as the empty string, as "00"
\* and as a handle.
ArgsMany ==
  [rawBody : {StringValue(<<233>>), NullValue, OtherValue}
             \cup {BytesValue(k, <<195, 169>>) : k \in ByteKinds},
   signature : {<<49>>, <<48, 48>>},
   timestamp : {<<49>>},
   clientPublicKey : {StringKey(<<>>), StringKey(<<48, 48>>),
                      CryptoKey(PublicKeyHandle(-1, <<0>>))}]

(***************************************************************************)
(* State.                                                                  *)
(***************************************************************************)
Procs == 1..MaxCalls

Sites == {"rawBody", "timestampData", "bodyData", "merged"}

Regions == Procs \X Sites

NoRef == <<0, "none">>

NoFrame ==
  [timestampData |-> NoRef, bodyData |-> NoRef, message |-> NoRef,
   publicKey |-> NoKey]

Pending == [state |-> "pending", value |-> FALSE]

NoProbe ==
  [op |-> "none", applied |-> FALSE, str |-> <<>>, res |-> Fresh(<<>>),
   arr1 |-> <<>>, arr2 |-> <<>>,
   heap |-> [r \in {"arr1", "arr2", "merged"} |-> <<>>], ref |-> "none"]

VARIABLES
  pc,          \* per call: "idle", "importKey", "verify", "done"
  args,        \* per call: the arguments as they were when it was invoked
  frame,       \* per call: the local constants of verifyKey
  heap,        \* region -> bytes: the caller's body memory and the arrays
               \* the call allocates
  result,      \* per call: the state of the promise verifyKey returned
  imports,     \* per call: the importKey invocations it made
  verifies,    \* per call: the verify invocations it made
  nextHandle,  \* provider: identity of the next key handle it creates
  probe        \* a helper applied on its own: its input and its result

vars == <<pc, args, frame, heap, result, imports, verifies, nextHandle, probe>>

callVars == <<pc, args, frame, heap, result, imports, verifies, nextHandle>>

State ==
  [pc |-> pc, args |-> args, frame |-> frame, heap |-> heap,
   result |-> result, imports |-> imports, verifies |-> verifies,
   nextHandle |-> nextHandle]

Becomes(st) ==
  /\ pc' = st.pc
  /\ args' = st.args
  /\ frame' = st.frame
  /\ heap' = st.heap
  /\ result' = st.result
  /\ imports' = st.imports
  /\ verifies' = st.verifies
  /\ nextHandle' = st.nextHandle

(***************************************************************************)
(* verifyKey.                                                              *)
(***************************************************************************)
\* Variant: the handler rethrows.
catchBlock_rethrow(ex) == [state |-> "rejected", value |-> FALSE]

\* catch (ex) { return false; }
catchBlock(ex) == [state |-> "fulfilled", value |-> FALSE]

\* return isValid;
returnIsValid(isValid) == [state |-> "fulfilled", value |-> isValid]

Settle(st, p, res) == [st EXCEPT !.pc[p] = "done", !.result[p] = res]

\* Variant: the constants are module-level, one copy for every invocation.
BindLocals_shared(fr, p, new) == [q \in DOMAIN fr |-> new]

\* The constants of one invocation live in that invocation's own frame.
BindLocals(fr, p, new) == [fr EXCEPT ![p] = new]

\* Variant: the key is imported as extractable.
ImportCall_extractable(keyData) ==
  [format |-> "raw", keyData |-> keyData, algorithm |-> "ed25519",
   extractable |-> TRUE, usages |-> {"verify"}]

\* The arguments of subtleCrypto.importKey
ImportCall(keyData) ==
  [format |-> "raw", keyData |-> keyData, algorithm |-> "ed25519",
   extractable |-> FALSE, usages |-> {"verify"}]

\* const isValid = await subtleCrypto.verify(...), up to the suspension
CallVerify(st, p) ==
  LET sig == valueToUint8Array(StringValue(st.args[p].signature), "hex") IN
  IF sig.threw THEN Settle(st, p, catchBlock(sig.error))
  ELSE [st EXCEPT
          !.pc[p] = "verify",
          !.verifies[p] =
             Append(@, [algorithm |-> "ed25519",
                        key |-> st.frame[p].publicKey,
                        signature |-> sig.bytes,
                        data |-> st.heap[st.frame[p].message]])]

\* const publicKey = typeof clientPublicKey === "string" ? await ... : ...
ResolveKey(st, p) ==
  LET k == st.args[p].clientPublicKey IN
  IF k.kind = "string" THEN
    LET keyData == valueToUint8Array(StringValue(k.str), "hex") IN
    IF keyData.threw THEN Settle(st, p, catchBlock(keyData.error))
    ELSE [st EXCEPT
            !.pc[p] = "importKey",
            !.imports[p] =
               Append(@, ImportCall(keyData.bytes))]
  ELSE CallVerify(
         [st EXCEPT !.frame =
            BindLocals(@, p, [@[p] EXCEPT !.publicKey = k.key])], p)

\* timestampData, bodyData and message
Normalize(st, p) ==
  LET a == st.args[p]
      ts == valueToUint8Array(StringValue(a.timestamp), "")
      body == valueToUint8Array(a.rawBody, "")
      tsRef == <<p, "timestampData">>
      bodyRef == IF body.shares THEN <<p, "rawBody">> ELSE <<p, "bodyData">>
      h1 == [st.heap EXCEPT ![tsRef] = ts.bytes]
      h2 == IF body.shares THEN h1 ELSE [h1 EXCEPT ![bodyRef] = body.bytes]
      cc == concatUint8Arrays(h2, tsRef, bodyRef, <<p, "merged">>)
  IN IF ts.threw THEN Settle(st, p, catchBlock(ts.error))
     ELSE IF body.threw
       THEN Settle([st EXCEPT !.heap = h1,
                      !.frame = BindLocals(@, p,
                                  [@[p] EXCEPT !.timestampData = tsRef])],
                   p, catchBlock(body.error))
     ELSE ResolveKey(
            [st EXCEPT !.heap = cc.heap,
               !.frame = BindLocals(@, p,
                           [@[p] EXCEPT !.timestampData = tsRef,
                                        !.bodyData = bodyRef,
                                        !.message = cc.ref])], p)

\* verifyKey(rawBody, signature, timestamp, clientPublicKey), from the call
\* to its first suspension or its return.
verifyKey(st, p, a) ==
  Normalize([st EXCEPT !.args[p] = a,
               !.heap[<<p, "rawBody">>] = a.rawBody.bytes,
               !.result[p] = Pending], p)

\* The continuation after importKey settled.
AfterImport(st, p) ==
  LET out == importKey(st.imports[p][Len(st.imports[p])], st.nextHandle) IN
  IF out.rejected THEN Settle(st, p, catchBlock("importKey rejected"))
  ELSE CallVerify(
         [st EXCEPT !.nextHandle = @ + 1,
            !.frame = BindLocals(@, p, [@[p] EXCEPT !.publicKey = out.key])],
         p)

\* The continuation after verify settled.
AfterVerify(st, p) ==
  LET out == subtleVerify(st.verifies[p][Len(st.verifies[p])]) IN
  IF out.rejected THEN Settle(st, p, catchBlock("verify rejected"))
  ELSE Settle(st, p, returnIsValid(out.value))

(***************************************************************************)
(* Actions.                                                                *)
(***************************************************************************)
\* A caller invokes verifyKey with arguments drawn from A.
Invoke(p, A) ==
  /\ pc[p] = "idle"
  /\ \E a \in A : Becomes(verifyKey(State, p, a))
  /\ UNCHANGED probe

ImportSettles(p) ==
  /\ pc[p] = "importKey"
  /\ Becomes(AfterImport(State, p))
  /\ UNCHANGED probe

VerifySettles(p) ==
  /\ pc[p] = "verify"
  /\ Becomes(AfterVerify(State, p))
  /\ UNCHANGED probe

ApplyHex ==
  /\ probe.op = "hex"
  /\ ~probe.applied
  /\ probe' = [probe EXCEPT !.applied = TRUE,
                 !.res = valueToUint8Array(StringValue(probe.str), "hex")]
  /\ UNCHANGED callVars

ApplyConcat ==
  /\ probe.op = "concat"
  /\ ~probe.applied
  /\ LET cc == concatUint8Arrays(probe.heap, "arr1", "arr2", "merged") IN
       probe' = [probe EXCEPT !.applied = TRUE, !.heap = cc.heap,
                                !.ref = cc.ref]
  /\ UNCHANGED callVars

(***************************************************************************)
(* Specifications.                                                         *)
(***************************************************************************)
InitCalls ==
  /\ pc = [p \in Procs |-> "idle"]
  /\ args = [p \in Procs |-> NoArgs]
  /\ frame = [p \in Procs |-> NoFrame]
  /\ heap = [r \in Regions |-> <<>>]
  /\ result = [p \in Procs |-> Pending]
  /\ imports = [p \in Procs |-> <<>>]
  /\ verifies = [p \in Procs |-> <<>>]
  /\ nextHandle = 1

\* Concurrent calls.
Init == InitCalls /\ probe = NoProbe

Next ==
  \E p \in Procs :
    \/ Invoke(p, ArgsMany)
    \/ ImportSettles(p)
    \/ VerifySettles(p)

Spec == Init /\ [][Next]_vars

\* One call over the whole input space.
NextOne ==
  \/ Invoke(1, ArgsOne)
  \/ ImportSettles(1)
  \/ VerifySettles(1)

SpecOne == Init /\ [][NextOne]_vars

\* The hex decoder on its own.
ProbeUnits == {32, 10, 45, 48, 49, 70, 97, 120, 122}

InitHex ==
  /\ InitCalls
  /\ \E s \in SeqsUpTo(ProbeUnits, MaxProbeLen) :
       probe = [NoProbe EXCEPT !.op = "hex", !.str = s]

SpecHex == InitHex /\ [][ApplyHex]_vars

\* The concatenation on its own.
ProbeBytes == {0, 7, 255}

InitConcat ==
  /\ InitCalls
  /\ \E a, b \in SeqsUpTo(ProbeBytes, MaxArrLen) :
       probe = [NoProbe EXCEPT !.op = "concat", !.arr1 = a, !.arr2 = b,
                  !.heap = [NoProbe.heap EXCEPT !["arr1"] = a, !["arr2"] = b]]

SpecConcat == InitConcat /\ [][ApplyConcat]_vars

(***************************************************************************)
(* Vocabulary of the properties.                                           *)
(***************************************************************************)
Done(p) == pc[p] = "done"

Returned(p, b) == Done(p) /\ result[p] = [state |-> "fulfilled", value |-> b]

\* The bytes a body stands for: the UTF-8 of a string, nothing for an
\* absent body, the content of a byte sequence.
BytesOfBody(v) ==
  IF v.kind = "string" THEN TextEncoderEncode(v.str) ELSE v.bytes

IsHexDigit(c) == c \in (48..57) \cup (65..70) \cup (97..102)

WellFormedHex(s) == Len(s) % 2 = 0 /\ \A i \in 1..Len(s) : IsHexDigit(s[i])

HexDecode(s) == valueToUint8Array(StringValue(s), "hex")

\* The verify primitive accepts signature sig over data under key.
Accepts(key, sig, data) ==
  LET out == subtleVerify([algorithm |-> "ed25519", key |-> key,
                           signature |-> sig, data |-> data])
  IN ~out.rejected /\ out.value

BodyFails(a) == valueToUint8Array(a.rawBody, "").threw

KeyDecodeFails(a) ==
  a.clientPublicKey.kind = "string" /\ HexDecode(a.clientPublicKey.str).threw

SignatureDecodeFails(a) == HexDecode(a.signature).threw

ImportRejected(p) ==
  imports[p] # <<>> /\ importKey(imports[p][1], 0).rejected

VerifyRejected(p) ==
  verifies[p] # <<>> /\ subtleVerify(verifies[p][1]).rejected

(***************************************************************************)
(* C1.  verifyKey never raises: the promise it returns is never rejected,  *)
(* a finished call has produced a boolean, and a failure of body           *)
(* normalization, of key decoding or import, of signature decoding or of   *)
(* the verify primitive makes that boolean false.                          *)
(***************************************************************************)
C1_NeverRaises ==
  \A p \in Procs :
    /\ result[p].state # "rejected"
    /\ Done(p) =>
         /\ result[p].state = "fulfilled"
         /\ result[p].value \in BOOLEAN
         /\ (BodyFails(args[p]) \/ KeyDecodeFails(args[p])
             \/ ImportRejected(p) \/ SignatureDecodeFails(args[p])
             \/ VerifyRejected(p)) => result[p].value = FALSE

\* A call whose verify primitive threw has returned false.
C1_Witness == Returned(1, FALSE) /\ VerifyRejected(1)

(***************************************************************************)
(* C2.  verifyKey returns true only if the verify primitive accepted the   *)
(* resolved key, the hex-decoded signature and the message made of the     *)
(* timestamp's UTF-8 bytes followed by the body bytes; a signature that is *)
(* valid over body||timestamp but not over timestamp||body is rejected.    *)
(***************************************************************************)
C2_TimestampThenBody ==
  \A p \in Procs :
    LET a == args[p]
        ts == TextEncoderEncode(a.timestamp)
        body == BytesOfBody(a.rawBody)
        sig == HexDecode(a.signature).bytes
    IN /\ Returned(p, TRUE) =>
            /\ Len(verifies[p]) = 1
            /\ verifies[p][1].key = frame[p].publicKey
            /\ verifies[p][1].signature = sig
            /\ verifies[p][1].data = ts \o body
            /\ Accepts(frame[p].publicKey, sig, ts \o body)
       /\ (/\ Done(p)
           /\ Accepts(frame[p].publicKey, sig, body \o ts)
           /\ ~Accepts(frame[p].publicKey, sig, ts \o body))
          => Returned(p, FALSE)

\* A finished call whose signature is valid over body||timestamp only.
C2_Witness ==
  LET a == args[1]
      ts == TextEncoderEncode(a.timestamp)
      body == BytesOfBody(a.rawBody)
      sig == HexDecode(a.signature).bytes
  IN /\ Returned(1, FALSE)
     /\ ts \o body # body \o ts
     /\ Accepts(frame[1].publicKey, sig, body \o ts)
     /\ ~Accepts(frame[1].publicKey, sig, ts \o body)

(***************************************************************************)
(* C3.  verifyKey returns false whenever the signature string has odd      *)
(* length or the public-key string contains a non-hex character.           *)
(***************************************************************************)
C3_MalformedHexIsFalse ==
  \A p \in Procs :
    LET a == args[p] IN
    (/\ Done(p)
     /\ \/ Len(a.signature) % 2 = 1
        \/ /\ a.clientPublicKey.kind = "string"
           /\ \E i \in 1..Len(a.clientPublicKey.str) :
                ~IsHexDigit(a.clientPublicKey.str[i]))
    => Returned(p, FALSE)

(***************************************************************************)
(* C4.  With the same signature, timestamp and key, a call whose body is a *)
(* string and a call whose body is a byte sequence holding that string's   *)
(* UTF-8 encoding return the same boolean.                                 *)
(***************************************************************************)
SameButBody(p, q) ==
  /\ args[p].signature = args[q].signature
  /\ args[p].timestamp = args[q].timestamp
  /\ args[p].clientPublicKey = args[q].clientPublicKey
  /\ args[p].rawBody.kind = "string"
  /\ args[q].rawBody.kind \in ByteKinds
  /\ args[q].rawBody.bytes = TextEncoderEncode(args[p].rawBody.str)

C4_StringAndBytesAgree ==
  \A p, q \in Procs :
    (Done(p) /\ Done(q) /\ SameButBody(p, q)) => result[p] = result[q]

\* A string body and the ArrayBuffer of its UTF-8 bytes, both accepted.
C4_Witness ==
  /\ SameButBody(1, 2)
  /\ args[2].rawBody.kind = "ArrayBuffer"
  /\ Returned(1, TRUE)
  /\ Returned(2, TRUE)

(***************************************************************************)
(* C5.  Under every interleaving of the calls at their suspension points,  *)
(* a finished call has the result the same call has when it runs alone.    *)
(***************************************************************************)
RunAlone(a) ==
  LET fresh == [pc |-> [p \in Procs |-> "idle"],
                args |-> [p \in Procs |-> NoArgs],
                frame |-> [p \in Procs |-> NoFrame],
                heap |-> [r \in Regions |-> <<>>],
                result |-> [p \in Procs |-> Pending],
                imports |-> [p \in Procs |-> <<>>],
                verifies |-> [p \in Procs |-> <<>>],
                nextHandle |-> 1]
      s0 == verifyKey(fresh, 1, a)
      s1 == IF s0.pc[1] = "importKey" THEN AfterImport(s0, 1) ELSE s0
      s2 == IF s1.pc[1] = "verify" THEN AfterVerify(s1, 1) ELSE s1
  IN s2.result[1]

C5_CallsIndependent ==
  \A p \in Procs : Done(p) => result[p] = RunAlone(args[p])

\* Call 1 was accepted; its key was imported after call 2's key, and call 2
\* is still suspended in the verify primitive with other arguments.
C5_Witness ==
  /\ Returned(1, TRUE)
  /\ frame[1].publicKey.id = 2
  /\ pc[2] = "verify"
  /\ args[2].rawBody # args[1].rawBody

(***************************************************************************)
(* C6.  verifyKey never mutates its inputs: the caller's body memory holds *)
(* what it held at the call, the arguments are the ones passed, the        *)
(* timestamp and body bytes are intact after the message is assembled, and *)
(* the message is a region of its own.                                     *)
(***************************************************************************)
C6_InputsUntouched ==
  \A p \in Procs :
    pc[p] # "idle" =>
      /\ heap[<<p, "rawBody">>] = args[p].rawBody.bytes
      /\ frame[p].message # NoRef =>
           /\ frame[p].message \notin
                {frame[p].timestampData, frame[p].bodyData, <<p, "rawBody">>}
           /\ heap[frame[p].timestampData] =
                TextEncoderEncode(args[p].timestamp)
           /\ heap[frame[p].bodyData] = BytesOfBody(args[p].rawBody)

\* An accepted call whose body is a non-empty Uint8Array and whose timestamp
\* is empty: the message has the content of the body and is another region.
C6_Witness ==
  /\ Returned(1, TRUE)
  /\ args[1].rawBody.kind = "Uint8Array"
  /\ args[1].rawBody.bytes # <<>>
  /\ args[1].timestamp = <<>>
  /\ frame[1].bodyData = <<1, "rawBody">>
  /\ heap[frame[1].message] = heap[<<1, "rawBody">>]

(***************************************************************************)
(* C7.  valueToUint8Array with format "hex" fails on a string of odd       *)
(* length or with a non-hex character, and on success returns one byte per *)
(* 2-character chunk, parsed in base 16.                                   *)
(***************************************************************************)
HexPairValue(s, i) == 16 * DigitValue(s[2 * i - 1]) + DigitValue(s[2 * i])

C7_HexDecoderRejectsMalformed ==
  (probe.op = "hex" /\ probe.applied) =>
    /\ ~WellFormedHex(probe.str) => probe.res.threw
    /\ ~probe.res.threw =>
         /\ Len(probe.res.bytes) * 2 = Len(probe.str)
         /\ \A i \in 1..Len(probe.res.bytes) :
              probe.res.bytes[i] = HexPairValue(probe.str, i)

(***************************************************************************)
(* C8.  concatUint8Arrays(A, B) is a new sequence of length len(A)+len(B): *)
(* A followed by B, nothing between, before or after; A and B are intact.  *)
(***************************************************************************)
C8_ConcatIsAThenB ==
  (probe.op = "concat" /\ probe.applied) =>
    /\ probe.ref \notin {"arr1", "arr2"}
    /\ Len(probe.heap[probe.ref]) = Len(probe.arr1) + Len(probe.arr2)
    /\ SubSeq(probe.heap[probe.ref], 1, Len(probe.arr1)) = probe.arr1
    /\ SubSeq(probe.heap[probe.ref], Len(probe.arr1) + 1,
              Len(probe.arr1) + Len(probe.arr2)) = probe.arr2
    /\ probe.heap["arr1"] = probe.arr1
    /\ probe.heap["arr2"] = probe.arr2

\* Two non-empty operands that differ have been merged.
C8_Witness ==
  /\ probe.op = "concat"
  /\ probe.applied
  /\ probe.arr1 # <<>>
  /\ probe.arr2 # <<>>
  /\ probe.arr1 \o probe.arr2 # probe.arr2 \o probe.arr1
  /\ probe.heap[probe.ref] = probe.arr1 \o probe.arr2

(***************************************************************************)
(* C9.  Key resolution.  With a key handle, importKey is never invoked and *)
(* that handle is the one passed to verify.  With a string, the key is     *)
(* hex-decoded and imported as a non-extractable verify-only Ed25519 key,  *)
(* the handle is used by no other call, and verify is invoked only after   *)
(* the import succeeded.                                                   *)
(***************************************************************************)
HandleCase(p) ==
  args[p].clientPublicKey.kind = "CryptoKey" =>
    /\ imports[p] = <<>>
    /\ \A i \in 1..Len(verifies[p]) :
         verifies[p][i].key = args[p].clientPublicKey.key

StringCase(p) ==
  args[p].clientPublicKey.kind = "string" =>
    /\ Len(imports[p]) <= 1
    /\ \A i \in 1..Len(imports[p]) :
         /\ imports[p][i].format = "raw"
         /\ imports[p][i].keyData = HexDecode(args[p].clientPublicKey.str).bytes
         /\ NormalizeAlgorithm(imports[p][i].algorithm) = "Ed25519"
         /\ imports[p][i].extractable = FALSE
         /\ imports[p][i].usages = {"verify"}
    /\ \A i \in 1..Len(verifies[p]) :
         /\ Len(imports[p]) = 1
         /\ ~importKey(imports[p][1], 0).rejected
         /\ verifies[p][i].key = importKey(imports[p][1], verifies[p][i].key.id).key
         /\ verifies[p][i].key.id >= 1
         /\ \A q \in Procs \ {p} : \A j \in 1..Len(verifies[q]) :
              verifies[q][j].key.id # verifies[p][i].key.id
    /\ pc[p] = "importKey" => verifies[p] = <<>>

C10_NullBodyIsEmpty ==
  \A p \in Procs :
    (pc[p] # "idle" /\ args[p].rawBody.kind = "null") =>
      /\ ~BodyFails(args[p])
      /\ frame[p].message # NoRef
      /\ frame[p].message # NoRef =>
           heap[frame[p].message] = TextEncoderEncode(args[p].timestamp)
      /\ \A i \in 1..Len(verifies[p]) :
           verifies[p][i].data = TextEncoderEncode(args[p].timestamp)
      /\ Done(p) =>
           result[p].value =
             (/\ verifies[p] # <<>>
              /\ Accepts(frame[p].publicKey, HexDecode(args[p].signature).bytes,
                         TextEncoderEncode(args[p].timestamp)))

\* An accepted call with an absent body and a non-empty timestamp.
C10_Witness ==
  /\ Returned(1, TRUE)
  /\ args[1].rawBody.kind = "null"
  /\ args[1].timestamp # <<>>

====
